---- MODULE Spec2Model ----
(***************************************************************************)
(* Model of src/app.py: the greedy multi-driver route assignment           *)
(* (optimize_routes), the button handler of app_v1 that geocodes, computes *)
(* the single-driver baseline, calls optimize_routes, recomputes the legs  *)
(* of the routes and derives cost and savings, and the retry loop of       *)
(* geocode_address.                                                        *)
(*                                                                         *)
(* Numbers.  Coordinates are (latitude, longitude) pairs in whole degrees, *)
(* taken from a short list of places near (0, 0).  A distance is the       *)
(* great-circle distance in miles cut to whole miles; between the places   *)
(* of the list that is the integer square root of 4774 times the squared   *)
(* difference in degrees (one degree is 69.09 miles).  The other Python    *)
(* floats are modelled as exact rationals: a cost is a fraction num/den in *)
(* lowest terms, so (D / E) * P is exact.                                  *)
(***************************************************************************)
EXTENDS Integers, Sequences, FiniteSets, Bags, TLC

VARIABLES
    pc,                     \* position of the running call
    caller,                 \* who called optimize_routes: "direct" or "app"
    start_coords,           \* optimize_routes: parameter
    deliveries,             \* optimize_routes: parameter / app_v1: local list
    num_drivers,            \* optimize_routes: parameter
    given,                  \* the delivery list as the caller passed it
    routes,                 \* optimize_routes: local
    unassigned_deliveries,  \* optimize_routes: local (the pool)
    best_driver_index,      \* optimize_routes: local, of the last scan
    best_delivery_index,    \* optimize_routes: local, of the last scan
    min_distance,           \* optimize_routes: local, of the last scan
    result,                 \* value returned by optimize_routes
    exit,                   \* how optimize_routes left: guard, drained, break
    iterations,             \* number of iterations of the while loop so far
    selected,               \* per iteration, in order: the driver chosen and
                            \* the min_distance of the scan
    start_address_input,    \* app_v1: sidebar text input
    delivery_addresses_input, \* app_v1: sidebar text area, as its lines
    num_drivers_total,      \* app_v1: sidebar number input
    num_drivers_to_send,    \* app_v1: sidebar number input
    fuel_price_per_gallon,  \* app_v1: sidebar number input
    avg_mpg,                \* app_v1: sidebar number input
    app_error,              \* app_v1: the st.error shown before st.stop()
    unoptimized_distance,   \* app_v1: local
    unoptimized_fuel_cost,  \* app_v1: local
    legs,                   \* app_v1: per route, the distance_to_next shown
    total_optimized_distance, \* app_v1: local
    optimized_fuel_cost,    \* app_v1: local
    distance_saved,         \* app_v1: local
    fuel_cost_saved,        \* app_v1: local
    max_retries,            \* geocode_address: parameter
    attempt,                \* geocode_address: loop variable
    responses,              \* what the provider answered, attempt by attempt
    slept,                  \* the time.sleep() calls made, in order
    location                \* value returned by geocode_address

optVars == <<start_coords, deliveries, num_drivers, given, routes,
             unassigned_deliveries, best_driver_index, best_delivery_index,
             min_distance, result, exit, iterations, selected>>

appVars == <<start_address_input, delivery_addresses_input,
             num_drivers_total, num_drivers_to_send, fuel_price_per_gallon,
             avg_mpg, app_error, unoptimized_distance, unoptimized_fuel_cost,
             legs, total_optimized_distance, optimized_fuel_cost,
             distance_saved, fuel_cost_saved>>

geoVars == <<max_retries, attempt, responses, slept, location>>

vars == <<pc, caller, optVars, appVars, geoVars>>

----------------------------------------------------------------------------
(* Bounds of the model *)

MaxPlaces == 4
MaxDeliveries == 3
MaxDrivers == 2
MaxLines == 3
MaxRetries == 4

(* Program constants *)

MilesPerDegreeSquared == 4774
Inf == 1000000
NoIndex == -1
DefaultMaxRetries == 3

----------------------------------------------------------------------------
(* Data *)

\* the places of the model's world, as (latitude, longitude)
Places == <<<<0, 0>>, <<0, 1>>, <<0, 2>>, <<2, 1>>, <<1, 0>>, <<1, 3>>>>

Coords == {Places[i] : i \in 1..MaxPlaces}

Abs(x) == IF x < 0 THEN -x ELSE x

Max(a, b) == IF a >= b THEN a ELSE b

\* the integer square root of x, known to lie in lo..hi
ISqrtIn(x, lo, hi) ==
    CHOOSE r \in lo..hi : r * r <= x /\ (r + 1) * (r + 1) > x

\* great_circle(coords1, coords2).miles, in whole miles
calculate_distance(coords1, coords2) ==
    LET dlat == Abs(coords1[1] - coords2[1])
        dlon == Abs(coords1[2] - coords2[2])
    IN ISqrtIn(MilesPerDegreeSquared * (dlat * dlat + dlon * dlon),
               69 * Max(dlat, dlon), 70 * (dlat + dlon))

\* the label of an address located at c
AddressAt(c) == ToString(c)

Stop(address, coords) == [address |-> address, coords |-> coords]

StartStop(coords) == Stop("Start Location", coords)

DeliveryStops == {Stop(AddressAt(c), c) : c \in Coords}

SeqsUpTo(S, n) == UNION {[1..k -> S] : k \in 0..n}

Last(s) == s[Len(s)]

Range(s) == {s[i] : i \in DOMAIN s}

----------------------------------------------------------------------------
(* optimize_routes *)

\* line 38: if not deliveries or num_drivers <= 0
EarlyReturnOnlyDrivers(ds, n) == n <= 0
EarlyReturnOnlyEmpty(ds, n) == ds = <<>>
EarlyReturn(ds, n) == ds = <<>> \/ n <= 0

\* line 42: one route per driver, holding the start Stop
InitialRoutes(coords, n) == [i \in 1..n |-> <<StartStop(coords)>>]

\* line 58: if current_distance < min_distance
ImprovesOrTies(current_distance, m) == current_distance <= m
ImprovesNever(current_distance, m) == current_distance > m
Improves(current_distance, m) == current_distance < m

\* lines 58-61: the best pair after looking at one more pair.  best and
\* candidate are <<distance, driver index, delivery index>> (0-based
\* indices); the running best is bound once, as a value
Keep(best, candidate) ==
    CHOOSE kept \in {IF Improves(candidate[1], b[1]) THEN candidate ELSE b :
                       b \in {best}} : TRUE

\* lines 54-61: the inner loop over the pool, in pool order
RECURSIVE ScanDeliveries(_, _, _, _, _)
ScanDeliveries(last_stop_coords, pool, driver_index, delivery_index, best) ==
    IF delivery_index >= Len(pool) THEN best
    ELSE ScanDeliveries(
           last_stop_coords, pool, driver_index, delivery_index + 1,
           Keep(best,
                <<calculate_distance(last_stop_coords,
                                     pool[delivery_index + 1].coords),
                  driver_index, delivery_index>>))

\* lines 52-61: the outer loop over the routes, in driver order
RECURSIVE ScanDrivers(_, _, _, _)
ScanDrivers(rs, pool, driver_index, best) ==
    IF driver_index >= Len(rs) THEN best
    ELSE ScanDrivers(rs, pool, driver_index + 1,
                     ScanDeliveries(Last(rs[driver_index + 1]).coords, pool,
                                    driver_index, 0, best))

\* lines 47-61: min_distance, best_driver_index, best_delivery_index
FindBest(rs, pool) == ScanDrivers(rs, pool, 0, <<Inf, NoIndex, NoIndex>>)

\* line 65: list.pop(index), as <<popped element, remaining list>>
ListPopFirstKept(list, index) ==
    <<list[index + 1], SubSeq(list, 2, Len(list))>>
ListPop(list, index) ==
    <<list[index + 1],
      SubSeq(list, 1, index) \o SubSeq(list, index + 2, Len(list))>>

\* line 66: routes[best_driver_index].append(best_delivery)
AppendTo(rs, driver_index, stop) ==
    [rs EXCEPT ![driver_index + 1] = Append(@, stop)]

\* lines 38-43
OptEnter ==
    /\ pc = "opt_call"
    /\ IF EarlyReturn(deliveries, num_drivers)
       THEN /\ result' = <<>>
            /\ exit' = "guard"
            /\ pc' = "opt_return"
            /\ UNCHANGED <<routes, unassigned_deliveries>>
       ELSE /\ routes' = InitialRoutes(start_coords, num_drivers)
            /\ unassigned_deliveries' = deliveries
            /\ pc' = "opt_loop"
            /\ UNCHANGED <<result, exit>>
    /\ UNCHANGED <<caller, start_coords, deliveries, num_drivers, given,
                   best_driver_index, best_delivery_index, min_distance,
                   iterations, selected, appVars, geoVars>>

\* lines 46-69: one iteration of the while loop
OptIter ==
    /\ pc = "opt_loop"
    /\ unassigned_deliveries # <<>>
    /\ \E best \in {FindBest(routes, unassigned_deliveries)} :
          /\ min_distance' = best[1]
          /\ best_driver_index' = best[2]
          /\ best_delivery_index' = best[3]
          /\ iterations' = iterations + 1
          /\ IF best[2] # NoIndex
             THEN \E popped \in {ListPop(unassigned_deliveries, best[3])} :
                     /\ unassigned_deliveries' = popped[2]
                     /\ routes' = AppendTo(routes, best[2], popped[1])
                     /\ selected' = Append(selected,
                                  [driver |-> best[2], distance |-> best[1]])
                     /\ UNCHANGED <<pc, result, exit>>
             ELSE /\ result' = routes
                  /\ exit' = "break"
                  /\ pc' = "opt_return"
                  /\ UNCHANGED <<routes, unassigned_deliveries, selected>>
    /\ UNCHANGED <<caller, start_coords, deliveries, num_drivers, given,
                   appVars, geoVars>>

\* lines 46, 71: the pool is empty, return routes
OptExit ==
    /\ pc = "opt_loop"
    /\ unassigned_deliveries = <<>>
    /\ result' = routes
    /\ exit' = "drained"
    /\ pc' = "opt_return"
    /\ UNCHANGED <<caller, start_coords, deliveries, num_drivers, given,
                   routes, unassigned_deliveries, best_driver_index,
                   best_delivery_index, min_distance, iterations, selected,
                   appVars, geoVars>>

----------------------------------------------------------------------------
(* Exact arithmetic for the float quantities of the cost analysis *)

RECURSIVE GCD(_, _)
GCD(a, b) == IF b = 0 THEN a ELSE GCD(b, a % b)

\* the fraction n/d (d # 0) in lowest terms with a positive denominator
Frac(n, d) ==
    LET g == GCD(Abs(n), Abs(d))
        sign == IF d < 0 THEN -1 ELSE 1
    IN [num |-> (sign * n) \div g, den |-> (sign * d) \div g]

\* Python raises ZeroDivisionError on x / 0
ZeroDivisionError == [num |-> 0, den |-> 0]

\* line 148, line 183: (distance / avg_mpg) * fuel_price_per_gallon
FuelCost(distance, price, mpg) ==
    IF mpg = 0 THEN ZeroDivisionError
    ELSE LET q == Frac(distance, mpg) IN Frac(q.num * price, q.den)

\* line 185: unoptimized_distance - total_optimized_distance
DistanceSavedClamped(baseline, optimized) ==
    IF baseline > optimized THEN baseline - optimized ELSE 0
DistanceSaved(baseline, optimized) == baseline - optimized

\* line 186: unoptimized_fuel_cost - optimized_fuel_cost
FuelCostSaved(baseline, optimized) ==
    Frac(baseline.num * optimized.den - optimized.num * baseline.den,
         baseline.den * optimized.den)

----------------------------------------------------------------------------
(* app_v1: the run of the script when the button is pressed *)

None == <<>>

\* the values the sidebar widgets deliver.  The handler checks avg_mpg
\* itself (line 110), so avg_mpg ranges over non-positive values too; the
\* driver counts and the price are at least the widgets' min_value.
FuelPrices == {1, 4}
MpgValues == {-1, 0, 25}

Unlocatable == "nowhere"
Blank == " "

\* the result geocode_address has for an address: its coordinate, or None
Geocode(address) ==
    IF \E c \in Coords : AddressAt(c) = address
    THEN CHOOSE c \in Coords : AddressAt(c) = address
    ELSE None

AddressLines == {AddressAt(c) : c \in Coords} \cup {Unlocatable, Blank}

\* str.split('\n'): the lines of a text; the empty text has one empty line
SplitLines(text) == IF text = <<>> THEN <<"">> ELSE text

\* str.strip() on the lines of the model
Strip(line) == IF line = Blank THEN "" ELSE line

RECURSIVE SelectNonBlank(_)
SelectNonBlank(lines) ==
    IF lines = <<>> THEN <<>>
    ELSE IF Strip(lines[1]) # ""
         THEN <<Strip(lines[1])>> \o SelectNonBlank(Tail(lines))
         ELSE SelectNonBlank(Tail(lines))

\* line 123
RawDeliveries(text) == SelectNonBlank(SplitLines(text))

\* lines 124-131: geocode every address, skip those that do not resolve
RECURSIVE GeocodeAll(_)
GeocodeAll(addresses) ==
    IF addresses = <<>> THEN <<>>
    ELSE LET coords == Geocode(addresses[1])
         IN IF coords # None
            THEN <<Stop(addresses[1], coords)>> \o GeocodeAll(Tail(addresses))
            ELSE GeocodeAll(Tail(addresses))

\* line 110
MpgRejectedOnlyNegative(mpg) == mpg < 0
MpgRejected(mpg) == mpg <= 0

\* line 146: current_location = delivery['coords']
BaselineStaysPut(current_location, delivery) == current_location
BaselineAdvance(current_location, delivery) == delivery.coords

\* lines 140-146: Start -> D1 -> D2 -> ... -> Dn
RECURSIVE BaselineLoop(_, _, _)
BaselineLoop(distance, current_location, ds) ==
    IF ds = <<>> THEN distance
    ELSE BaselineLoop(
           distance + calculate_distance(current_location, ds[1].coords),
           BaselineAdvance(current_location, ds[1]),
           Tail(ds))

BaselineDistance(coords, ds) == BaselineLoop(0, coords, ds)

\* line 174: current_stop_coords = stop['coords']
AssembleStaysPut(current_stop_coords, stop) == current_stop_coords
AssembleAdvance(current_stop_coords, stop) == stop.coords

\* lines 169-174: the distance_to_next of every stop of route[1:]
RECURSIVE WalkStops(_, _)
WalkStops(current_stop_coords, stops) ==
    IF stops = <<>> THEN <<>>
    ELSE <<calculate_distance(current_stop_coords, stops[1].coords)>>
           \o WalkStops(AssembleAdvance(current_stop_coords, stops[1]),
                        Tail(stops))

RECURSIVE SumSeq(_)
SumSeq(s) == IF s = <<>> THEN 0 ELSE s[1] + SumSeq(Tail(s))

\* lines 158-177, one route: nothing for a route of length 1
RouteLegs(route) ==
    IF Len(route) = 1 THEN <<>>
    ELSE WalkStops(route[1].coords, Tail(route))

\* lines 156-176: total_optimized_distance
RECURSIVE TotalDistance(_, _)
TotalDistance(rs, i) ==
    IF i > Len(rs) THEN 0
    ELSE SumSeq(RouteLegs(rs[i])) + TotalDistance(rs, i + 1)

\* lines 102-112: driver count validation, then the button's checks
AppClick ==
    /\ pc = "app_idle"
    /\ num_drivers_to_send' =
         IF num_drivers_to_send > num_drivers_total
         THEN num_drivers_total ELSE num_drivers_to_send
    /\ IF start_address_input = "" \/ delivery_addresses_input = <<>>
       THEN /\ app_error' = "enter addresses"
            /\ pc' = "app_stopped"
       ELSE IF MpgRejected(avg_mpg)
       THEN /\ app_error' = "mpg must be positive"
            /\ pc' = "app_stopped"
       ELSE /\ pc' = "app_geocode"
            /\ UNCHANGED app_error
    /\ UNCHANGED <<caller, optVars, geoVars, start_address_input,
                   delivery_addresses_input, num_drivers_total,
                   fuel_price_per_gallon, avg_mpg, unoptimized_distance,
                   unoptimized_fuel_cost, legs, total_optimized_distance,
                   optimized_fuel_cost, distance_saved, fuel_cost_saved>>

\* lines 115-136
AppGeocode ==
    /\ pc = "app_geocode"
    /\ start_coords' = Geocode(start_address_input)
    /\ IF Geocode(start_address_input) = None
       THEN /\ app_error' = "start not geocoded"
            /\ pc' = "app_stopped"
            /\ UNCHANGED deliveries
       ELSE /\ deliveries' = GeocodeAll(RawDeliveries(delivery_addresses_input))
            /\ IF GeocodeAll(RawDeliveries(delivery_addresses_input)) = <<>>
               THEN /\ app_error' = "no delivery geocoded"
                    /\ pc' = "app_stopped"
               ELSE /\ pc' = "app_baseline"
                    /\ UNCHANGED app_error
    /\ UNCHANGED <<caller, num_drivers, given, routes, unassigned_deliveries,
                   best_driver_index, best_delivery_index, min_distance,
                   result, exit, iterations, selected, geoVars,
                   start_address_input, delivery_addresses_input,
                   num_drivers_total, num_drivers_to_send,
                   fuel_price_per_gallon, avg_mpg, unoptimized_distance,
                   unoptimized_fuel_cost, legs, total_optimized_distance,
                   optimized_fuel_cost, distance_saved, fuel_cost_saved>>

\* lines 140-154: the baseline, its cost, and the call of optimize_routes
AppBaseline ==
    /\ pc = "app_baseline"
    /\ unoptimized_distance' = BaselineDistance(start_coords, deliveries)
    /\ unoptimized_fuel_cost' =
         FuelCost(BaselineDistance(start_coords, deliveries),
                  fuel_price_per_gallon, avg_mpg)
    /\ IF FuelCost(BaselineDistance(start_coords, deliveries),
                   fuel_price_per_gallon, avg_mpg) = ZeroDivisionError
       THEN /\ pc' = "app_crashed"
            /\ UNCHANGED <<num_drivers, given>>
       ELSE /\ pc' = "opt_call"
            /\ num_drivers' = num_drivers_to_send
            /\ given' = deliveries
    /\ UNCHANGED <<caller, start_coords, deliveries, routes,
                   unassigned_deliveries, best_driver_index,
                   best_delivery_index, min_distance, result, exit,
                   iterations, selected, geoVars, start_address_input,
                   delivery_addresses_input, num_drivers_total,
                   num_drivers_to_send, fuel_price_per_gallon, avg_mpg,
                   app_error, legs, total_optimized_distance,
                   optimized_fuel_cost, distance_saved, fuel_cost_saved>>

\* lines 156-178: the legs of every route, recomputed from the routes
AppAssemble ==
    /\ pc = "opt_return"
    /\ caller = "app"
    /\ legs' = [i \in DOMAIN result |-> RouteLegs(result[i])]
    /\ total_optimized_distance' = TotalDistance(result, 1)
    /\ pc' = "app_summary"
    /\ UNCHANGED <<caller, optVars, geoVars, start_address_input,
                   delivery_addresses_input, num_drivers_total,
                   num_drivers_to_send, fuel_price_per_gallon, avg_mpg,
                   app_error, unoptimized_distance, unoptimized_fuel_cost,
                   optimized_fuel_cost, distance_saved, fuel_cost_saved>>

\* lines 183-186
AppSummary ==
    /\ pc = "app_summary"
    /\ optimized_fuel_cost' =
         FuelCost(total_optimized_distance, fuel_price_per_gallon, avg_mpg)
    /\ distance_saved' =
         DistanceSaved(unoptimized_distance, total_optimized_distance)
    /\ fuel_cost_saved' =
         FuelCostSaved(unoptimized_fuel_cost,
                       FuelCost(total_optimized_distance,
                                fuel_price_per_gallon, avg_mpg))
    /\ pc' = "app_done"
    /\ UNCHANGED <<caller, optVars, geoVars, start_address_input,
                   delivery_addresses_input, num_drivers_total,
                   num_drivers_to_send, fuel_price_per_gallon, avg_mpg,
                   app_error, unoptimized_distance, unoptimized_fuel_cost,
                   legs, total_optimized_distance>>

----------------------------------------------------------------------------
(* geocode_address: the retry loop *)

\* line 22: wait_time = 2 ** attempt
WaitTime(n) == 2 ^ n

\* line 16: for attempt in range(max_retries)
AttemptsLeftOneMore(n, limit) == n <= limit
AttemptsLeft(n, limit) == n < limit

\* what geolocator.geocode can do in one attempt: return a location,
\* return None, raise one of the three exceptions the loop catches
\* (GeocoderUnavailable, GeocoderTimedOut, RequestException), or raise an
\* exception the loop does not catch
Answers ==
    {[kind |-> "located", coords |-> c] : c \in Coords}
      \cup {[kind |-> k, coords |-> None] :
              k \in {"nothing", "transient", "uncaught"}}

\* lines 17-23: one attempt
GeoAttempt ==
    /\ pc = "geo_loop"
    /\ AttemptsLeft(attempt, max_retries)
    /\ \E answer \in Answers :
         /\ responses' = Append(responses, answer)
         /\ IF answer.kind = "located"
            THEN /\ location' = answer.coords
                 /\ pc' = "geo_return"
                 /\ UNCHANGED <<attempt, slept>>
            ELSE IF answer.kind = "uncaught"
            THEN /\ pc' = "geo_raised"
                 /\ UNCHANGED <<attempt, slept, location>>
            ELSE /\ slept' = IF answer.kind = "transient"
                             THEN Append(slept, WaitTime(attempt))
                             ELSE slept
                 /\ attempt' = attempt + 1
                 /\ UNCHANGED <<pc, location>>
    /\ UNCHANGED <<caller, optVars, appVars, max_retries>>

\* line 25: the attempts are used up
GeoGiveUp ==
    /\ pc = "geo_loop"
    /\ ~AttemptsLeft(attempt, max_retries)
    /\ location' = None
    /\ pc' = "geo_return"
    /\ UNCHANGED <<caller, optVars, appVars, max_retries, attempt,
                   responses, slept>>

----------------------------------------------------------------------------
(* Specifications *)

NoCost == [num |-> 0, den |-> 1]

OptIdle ==
    /\ start_coords = None
    /\ deliveries = <<>>
    /\ num_drivers = 0
    /\ given = <<>>

OptFresh ==
    /\ routes = <<>>
    /\ unassigned_deliveries = <<>>
    /\ best_driver_index = NoIndex
    /\ best_delivery_index = NoIndex
    /\ min_distance = Inf
    /\ result = <<>>
    /\ exit = "none"
    /\ iterations = 0
    /\ selected = <<>>

AppFresh ==
    /\ app_error = ""
    /\ unoptimized_distance = 0
    /\ unoptimized_fuel_cost = NoCost
    /\ legs = <<>>
    /\ total_optimized_distance = 0
    /\ optimized_fuel_cost = NoCost
    /\ distance_saved = 0
    /\ fuel_cost_saved = NoCost

AppIdle ==
    /\ start_address_input = ""
    /\ delivery_addresses_input = <<>>
    /\ num_drivers_total = 1
    /\ num_drivers_to_send = 1
    /\ fuel_price_per_gallon = 4
    /\ avg_mpg = 25
    /\ AppFresh

GeoIdle ==
    /\ max_retries = DefaultMaxRetries
    /\ attempt = 0
    /\ responses = <<>>
    /\ slept = <<>>
    /\ location = None

\* a direct call optimize_routes(start_coords, deliveries, num_drivers)
InitOpt ==
    /\ pc = "opt_call"
    /\ caller = "direct"
    /\ start_coords \in Coords
    /\ deliveries \in SeqsUpTo(DeliveryStops, MaxDeliveries)
    /\ num_drivers \in -1..MaxDrivers
    /\ given = deliveries
    /\ OptFresh
    /\ AppIdle
    /\ GeoIdle

NextOpt == OptEnter \/ OptIter \/ OptExit

SpecOpt == InitOpt /\ [][NextOpt]_vars

\* the loop is sequential code: a step that can be taken is taken (every
\* step of NextOpt changes pc or iterations)
FairSpecOpt == SpecOpt /\ WF_<<pc, iterations>>(NextOpt)

\* the button is pressed with the sidebar filled in some way
InitApp ==
    /\ pc = "app_idle"
    /\ caller = "app"
    /\ start_address_input \in {AddressAt(c) : c \in Coords}
                                 \cup {Unlocatable, ""}
    /\ delivery_addresses_input \in SeqsUpTo(AddressLines, MaxLines)
    /\ num_drivers_total \in {1, MaxDrivers}
    /\ num_drivers_to_send \in 1..(MaxDrivers + 1)
    /\ fuel_price_per_gallon \in FuelPrices
    /\ avg_mpg \in MpgValues
    /\ AppFresh
    /\ OptIdle
    /\ OptFresh
    /\ GeoIdle

NextApp ==
    \/ AppClick \/ AppGeocode \/ AppBaseline
    \/ OptEnter \/ OptIter \/ OptExit
    \/ AppAssemble \/ AppSummary

SpecApp == InitApp /\ [][NextApp]_vars

\* a call geocode_address(address, max_retries)
InitGeo ==
    /\ pc = "geo_loop"
    /\ caller = "direct"
    /\ max_retries \in 0..MaxRetries
    /\ attempt = 0
    /\ responses = <<>>
    /\ slept = <<>>
    /\ location = None
    /\ OptIdle
    /\ OptFresh
    /\ AppIdle

NextGeo == GeoAttempt \/ GeoGiveUp

SpecGeo == InitGeo /\ [][NextGeo]_vars

----------------------------------------------------------------------------
(* Properties of optimize_routes *)

BagOfSeq(s) == [x \in Range(s) |-> Cardinality({i \in DOMAIN s : s[i] = x})]

\* a route without its leading start Stop
Tail1(route) == SubSeq(route, 2, Len(route))

RECURSIVE ConcatTails(_, _)
ConcatTails(rs, i) ==
    IF i > Len(rs) THEN <<>> ELSE Tail1(rs[i]) \o ConcatTails(rs, i + 1)

Precondition == given # <<>> /\ num_drivers >= 1

\* C1: for a non-empty delivery list and N >= 1 drivers, at every iteration
\* of the assignment loop each input delivery is in exactly one place (the
\* pool or one position of one route, counted with multiplicity), every
\* route begins with the start Stop, and on return the pool is empty and
\* the routes without their start Stops hold a permutation of the input.
C1_Conservation ==
    Precondition =>
      /\ pc = "opt_loop" =>
           /\ Len(routes) = num_drivers
           /\ \A i \in DOMAIN routes :
                routes[i] # <<>> /\ routes[i][1] = StartStop(start_coords)
           /\ BagOfSeq(unassigned_deliveries)
                (+) BagOfSeq(ConcatTails(routes, 1)) = BagOfSeq(given)
      /\ pc = "opt_return" =>
           /\ unassigned_deliveries = <<>>
           /\ Len(result) = num_drivers
           /\ \A i \in DOMAIN result :
                result[i] # <<>> /\ result[i][1] = StartStop(start_coords)
           /\ Len(ConcatTails(result, 1)) = Len(given)
           /\ BagOfSeq(ConcatTails(result, 1)) = BagOfSeq(given)

\* C1 witness: a returned plan over an input with two equal deliveries,
\* split over two drivers
C1_Witness ==
    /\ pc = "opt_return" /\ Precondition
    /\ \E i, j \in DOMAIN given : i < j /\ given[i] = given[j]
    /\ Cardinality({i \in DOMAIN result : Len(result[i]) > 1}) >= 2

\* distance of pair (driver e, pool index j), 0-based, in the current state
PairDistance(e, j) ==
    calculate_distance(Last(routes[e + 1]).coords,
                       unassigned_deliveries[j + 1].coords)

\* C2: every assignment step chooses a pair (driver, unassigned delivery) of
\* minimum distance from the drivers' current last stops over the whole
\* cross-product, and among the pairs of minimum distance the first in
\* (driver index, then pool index) order; that delivery leaves the pool and
\* becomes the last stop of that driver's route.
C2_GlobalMinFirst ==
    [][(pc = "opt_loop" /\ unassigned_deliveries # <<>>) =>
        LET d == best_driver_index'
            k == best_delivery_index'
        IN /\ d \in 0..(Len(routes) - 1)
           /\ k \in 0..(Len(unassigned_deliveries) - 1)
           /\ min_distance' = PairDistance(d, k)
           /\ \A e \in 0..(Len(routes) - 1) :
                \A j \in 0..(Len(unassigned_deliveries) - 1) :
                   /\ PairDistance(e, j) >= PairDistance(d, k)
                   /\ PairDistance(e, j) = PairDistance(d, k) =>
                        (e > d \/ (e = d /\ j >= k))
           /\ routes' = [routes EXCEPT ![d + 1] =
                            Append(@, unassigned_deliveries[k + 1])]
           /\ Len(unassigned_deliveries') = Len(unassigned_deliveries) - 1
      ]_vars

\* C2 witness: a step just chose, for a driver whose last stop was already
\* a delivery and at a distance that differs from the chosen stop's distance
\* to the start, a pair that tied with a later pair: a later driver was
\* equally near to the chosen stop, or a delivery further down the pool was
\* equally near to the same driver
C2_Witness ==
    /\ pc = "opt_loop" /\ iterations >= 2
    /\ best_driver_index # NoIndex
    /\ LET route == routes[best_driver_index + 1]
           before == route[Len(route) - 1].coords
       IN /\ Len(route) >= 3
          /\ min_distance = calculate_distance(before, Last(route).coords)
          /\ min_distance # calculate_distance(start_coords,
                                               Last(route).coords)
          /\ \/ \E e \in DOMAIN routes :
                  /\ e > best_driver_index + 1
                  /\ calculate_distance(Last(routes[e]).coords,
                                        Last(route).coords) = min_distance
             \/ \E j \in DOMAIN unassigned_deliveries :
                  /\ j >= best_delivery_index + 1
                  /\ calculate_distance(before,
                         unassigned_deliveries[j].coords) = min_distance

\* C3 as stated: with an empty delivery list and N > 0 drivers the call
\* returns N routes, each holding only the start Stop.
C3_EmptyListGivesNRoutes ==
    (pc = "opt_return" /\ given = <<>> /\ num_drivers > 0) =>
      /\ Len(result) = num_drivers
      /\ \A i \in DOMAIN result : result[i] = <<StartStop(start_coords)>>

\* C3 amended: with an empty delivery list and N > 0 drivers the call
\* returns an empty fleet (no route at all) through the guard of line 38,
\* without entering the loop.
C3_EmptyListGivesNoRoutes ==
    (pc = "opt_return" /\ given = <<>> /\ num_drivers > 0) =>
      /\ result = <<>>
      /\ exit = "guard"
      /\ iterations = 0

\* C3 witness: a call with an empty delivery list and two drivers returned
C3_Witness ==
    pc = "opt_return" /\ given = <<>> /\ num_drivers = 2

\* C4: with N <= 0 drivers and a non-empty delivery list the call returns
\* an empty fleet immediately: through the guard, never entering the loop,
\* creating no route, assigning nothing, the input list left as given.
C4_NoDriversGivesNoRoutes ==
    (num_drivers <= 0 /\ given # <<>>) =>
      /\ pc \in {"opt_call", "opt_return"}
      /\ routes = <<>>
      /\ unassigned_deliveries = <<>>
      /\ iterations = 0
      /\ deliveries = given
      /\ pc = "opt_return" => (result = <<>> /\ exit = "guard")

\* C4 witness: a call with no driver and two deliveries returned
C4_Witness ==
    pc = "opt_return" /\ num_drivers = 0 /\ Len(given) = 2

\* C5: for a non-empty list of U deliveries and N >= 1 drivers the loop
\* terminates, by draining the pool after exactly U iterations; each
\* iteration moves exactly one delivery from the pool to exactly one route,
\* and the break exit is never taken.
C5_Terminates ==
    /\ (pc = "opt_call" /\ Precondition)
         ~> (pc = "opt_return" /\ exit = "drained"
               /\ iterations = Len(given))
    /\ [](Precondition =>
            /\ exit # "break"
            /\ pc = "opt_loop" =>
                 iterations + Len(unassigned_deliveries) = Len(given))
    /\ [][(pc = "opt_loop" /\ unassigned_deliveries # <<>>) =>
            /\ iterations' = iterations + 1
            /\ Len(unassigned_deliveries') = Len(unassigned_deliveries) - 1
            /\ Cardinality({i \in DOMAIN routes :
                              routes'[i] # routes[i]}) = 1
            /\ \A i \in DOMAIN routes :
                 routes'[i] # routes[i] =>
                   (Len(routes'[i]) = Len(routes[i]) + 1
                      /\ SubSeq(routes'[i], 1, Len(routes[i])) = routes[i])
         ]_vars

\* C5 witness: the loop drained a pool of three deliveries in three
\* iterations
C5_Witness ==
    /\ pc = "opt_return" /\ exit = "drained"
    /\ Len(given) = 3 /\ iterations = 3

----------------------------------------------------------------------------
(* Properties of the button handler of app_v1 *)

RECURSIVE SumOver(_, _)
SumOver(f, S) ==
    IF S = {} THEN 0
    ELSE LET x == CHOOSE y \in S : TRUE IN f[x] + SumOver(f, S \ {x})

\* the handler is past the baseline computation
BaselineDone ==
    pc \in {"opt_call", "opt_loop", "opt_return", "app_summary", "app_done"}

\* start, delivery[0], delivery[1], ... as coordinates
Path == <<start_coords>> \o [i \in DOMAIN deliveries |-> deliveries[i].coords]

\* C6: the baseline distance is distance(start, delivery[0]) plus the sum
\* of the distances of consecutive deliveries in input order, whatever the
\* driver count; the evaluator gives 0 on an empty delivery list.
C6_Baseline ==
    /\ BaselineDone =>
         unoptimized_distance =
           SumOver([i \in DOMAIN deliveries |->
                      calculate_distance(Path[i], Path[i + 1])],
                   DOMAIN deliveries)
    /\ \A c \in Coords : BaselineDistance(c, <<>>) = 0

\* C6 witness: a baseline over three deliveries that differs from the sum
\* of their distances to the start, in a run with two drivers
C6_Witness ==
    /\ pc = "app_done" /\ num_drivers = 2
    /\ Len(deliveries) = 3
    /\ unoptimized_distance > 0
    /\ unoptimized_distance #
         SumOver([i \in DOMAIN deliveries |->
                    calculate_distance(start_coords, deliveries[i].coords)],
                 DOMAIN deliveries)

\* the position, among the deliveries of its driver, of the delivery
\* assigned at step t
PositionOf(t) ==
    Cardinality({u \in 1..t : selected[u].driver = selected[t].driver})

\* C7: the legs recomputed from the final routes are the distances selected
\* during assignment: the delivery assigned at step t to driver d is reached
\* by a leg of length min_distance of step t, every leg belongs to a step, a
\* route of length 1 has no leg, and the total optimized distance is the sum
\* of the selected minimum distances.
C7_LegsMirrorAssignment ==
    pc \in {"app_summary", "app_done"} =>
      /\ Len(legs) = Len(result)
      /\ \A t \in DOMAIN selected :
           /\ PositionOf(t) \in DOMAIN legs[selected[t].driver + 1]
           /\ legs[selected[t].driver + 1][PositionOf(t)]
                = selected[t].distance
      /\ SumOver([i \in DOMAIN legs |-> Len(legs[i])], DOMAIN legs)
           = Len(selected)
      /\ \A i \in DOMAIN result : Len(result[i]) = 1 => legs[i] = <<>>
      /\ total_optimized_distance =
           SumOver([t \in DOMAIN selected |-> selected[t].distance],
                   DOMAIN selected)

\* C7 witness: a finished run whose assignment was interleaved across the
\* drivers (a driver chosen, then another, then the first again) and whose
\* legs are not all measured from the start
C7_Witness ==
    /\ pc = "app_done"
    /\ \E t, u, w \in DOMAIN selected :
         /\ t < u /\ u < w
         /\ selected[t].driver = selected[w].driver
         /\ selected[t].driver # selected[u].driver
         /\ selected[w].distance #
              calculate_distance(start_coords,
                                 Last(result[selected[w].driver + 1]).coords)

\* C8: the savings are baseline minus optimized, for distance and for cost,
\* also when that is negative.
C8_SavingsNotClamped ==
    pc = "app_done" =>
      /\ distance_saved = unoptimized_distance - total_optimized_distance
      /\ fuel_cost_saved.den > 0
      /\ fuel_cost_saved.num
             * unoptimized_fuel_cost.den * optimized_fuel_cost.den
           = (unoptimized_fuel_cost.num * optimized_fuel_cost.den
                - optimized_fuel_cost.num * unoptimized_fuel_cost.den)
               * fuel_cost_saved.den

\* C8 witness: with two drivers the greedy plan is longer than the
\* baseline, and both savings are negative
C8_Witness ==
    /\ pc = "app_done" /\ num_drivers >= 2
    /\ total_optimized_distance > unoptimized_distance
    /\ distance_saved < 0
    /\ fuel_cost_saved.num < 0

\* c is exactly (distance / avg_mpg) * fuel_price_per_gallon
IsCostOf(c, distance) ==
    /\ c.den > 0
    /\ c.num * avg_mpg = distance * fuel_price_per_gallon * c.den

\* C9: the fuel cost of a distance D is (D / E) * P, for the baseline and
\* for the optimized plan; it is 0 for D = 0; distance 100 at economy 25 and
\* price 4 costs 16; with E <= 0 the handler stops before geocoding, baseline
\* and assignment, so no cost is ever computed with E <= 0.
C9_FuelCost ==
    /\ avg_mpg <= 0 =>
         /\ pc \in {"app_idle", "app_stopped"}
         /\ start_coords = None /\ deliveries = <<>>
         /\ routes = <<>> /\ iterations = 0
         /\ unoptimized_fuel_cost = NoCost /\ optimized_fuel_cost = NoCost
    /\ pc # "app_crashed"
    /\ BaselineDone => IsCostOf(unoptimized_fuel_cost, unoptimized_distance)
    /\ pc = "app_done" =>
         IsCostOf(optimized_fuel_cost, total_optimized_distance)
    /\ FuelCost(100, 4, 25) = [num |-> 16, den |-> 1]
    /\ \A price \in FuelPrices : \A mpg \in {m \in MpgValues : m > 0} :
         FuelCost(0, price, mpg) = [num |-> 0, den |-> 1]

\* C9 witness: a finished run whose two costs are positive and not whole
C9_Witness ==
    /\ pc = "app_done"
    /\ unoptimized_fuel_cost.num > 0 /\ unoptimized_fuel_cost.den > 1
    /\ optimized_fuel_cost.num > 0 /\ optimized_fuel_cost.den > 1

----------------------------------------------------------------------------
(* Properties of geocode_address *)

\* the waits that follow the transient failures among the answers from
\* the i-th on: 2^attempt, the attempts counted from 0
RECURSIVE WaitsFor(_, _)
WaitsFor(answers, i) ==
    IF i > Len(answers) THEN <<>>
    ELSE (IF answers[i].kind = "transient" THEN <<2 ^ (i - 1)>> ELSE <<>>)
           \o WaitsFor(answers, i + 1)

\* C10: geocode_address makes at most max_retries attempts, returns the
\* coordinate of the first attempt that succeeds, sleeps 2^attempt seconds
\* after each transiently failing attempt (1, 2, 4 with the default of 3
\* retries) and after none else, and when its attempts are used up returns
\* None; a transient error is never propagated.
C10_BoundedRetries ==
    /\ Len(responses) <= max_retries
    /\ attempt <= Len(responses)
    /\ \A i \in 1..(Len(responses) - 1) :
         responses[i].kind \in {"nothing", "transient"}
    /\ pc # "geo_raised" => slept = WaitsFor(responses, 1)
    /\ pc = "geo_raised" => Last(responses).kind = "uncaught"
    /\ pc = "geo_return" =>
         IF responses # <<>> /\ Last(responses).kind = "located"
         THEN location = Last(responses).coords
         ELSE /\ location = None
              /\ Len(responses) = max_retries
              /\ \A i \in DOMAIN responses :
                   responses[i].kind \in {"nothing", "transient"}
    /\ (pc = "geo_return" /\ max_retries = DefaultMaxRetries
          /\ \A i \in DOMAIN responses : responses[i].kind = "transient")
         => slept = <<1, 2, 4>>

\* C10 witness: three transient failures in a row with the default retry
\* count: waits of 1, 2 and 4 seconds, then None
C10_Witness ==
    /\ pc = "geo_return" /\ max_retries = DefaultMaxRetries
    /\ \A i \in DOMAIN responses : responses[i].kind = "transient"
    /\ slept = <<1, 2, 4>>
    /\ location = None

====
